---- MODULE Spec2Model ----
(***************************************************************************)
(* A model of ceviche/utils.py: the finite-difference gradient grad_num,  *)
(* the finite-difference VJP factory vjp_maker_num, jacobian_forward and  *)
(* measure_fields.                                                         *)
(*                                                                         *)
(* numpy arrays are modelled as references [buf, shape] into a heap of    *)
(* flat C-ordered buffers, so that views (ravel, reshape) alias their     *)
(* base and copies (copy.copy, flatten) do not.  Linear and multi indices *)
(* are 0-based as in numpy; a buffer is a 1-based sequence.               *)
(*                                                                         *)
(* float64 values are modelled exactly: the inputs are integral floats,   *)
(* and the result of a true division is a normalised fraction             *)
(* [num, den], den = 0 standing for nan (num = 0) and +-inf (num = +-1),  *)
(* which is what numpy's division by zero produces (with a warning).      *)
(***************************************************************************)
EXTENDS Integers, Sequences, FiniteSets, TLC

VARIABLES
    heap,         \* buffer id -> flat data: every array of the program
    passed,       \* buffer id -> the data the caller passed in that array
    g_pc,         \* grad_num: "idle", "start", "loop", "returned", "raised"
    g_fn,         \* grad_num's fn
    g_arg,        \* grad_num's arg (an array reference)
    g_step_size,  \* grad_num's step_size: a scalar number or an array
    g_step,       \* the local step (an array reference)
    g_f_old,      \* the local f_old
    g_i,          \* the loop index i
    g_ret,        \* the array grad_num returned
    g_exc,        \* the exception grad_num raised
    g_fn_inputs,  \* the values grad_num passed to fn, in call order
    v_pc,         \* the factory: "idle", "start", "made", "closure", "loop",
                  \* "returned", "raised"
    v_fn,         \* vjp_maker_num's fn
    v_args,       \* the arguments *args of the primitive (array references)
    v_fn_out,     \* the primitive's output fn_out = fn(*args) (an array reference)
    v_steps,      \* the caller's list steps
    v_arg_inds,   \* the caller's list arg_inds
    v_makers,     \* the tuple returned: per ia, the cells of vjp_single_arg
    v_k,          \* the position of the generator the caller invoked
    v_closure,    \* the cells of vjp_maker that vjp closes over
    v_cot,        \* the cotangent v of the running call
    v_ip,         \* the loop index ip
    v_ret,        \* the array the last vjp call returned
    v_exc,        \* the exception raised
    v_ncalls,     \* the number of vjp calls made
    v_nmut,       \* the number of times the caller changed steps or arg_inds
    v_fn_inputs,  \* the argument lists the running vjp call passed to fn
    j_pc,         \* jacobian_forward(fn)(x): "idle", "start", "returned", "raised"
    j_A,          \* the matrix A of the linear map fn(x) = A x
    j_x,          \* the point x
    j_ret,        \* the tensor returned
    j_exc,        \* the exception raised
    m_pc,         \* measure_fields: "idle", "start", "loop", "returned", "raised"
    m_steps,      \* the argument steps
    m_amp,        \* the amplitude of the argument source
    m_probes,     \* the argument probes, then the local list probes
    m_t,          \* the loop index t_index
    m_measured,   \* the local array measured, a list of rows
    m_F,          \* the simulation F: its field and the calls it received
    m_exc         \* the exception raised

(* ---------------------------- bounds ----------------------------------- *)

\* the largest length of one axis of an input array
MaxAxis == 2
\* the first entry of an input array ranges over 1..MaxBase
MaxBase == 2
\* scalar steps range over -1 and 0..MaxStep
MaxStep == 2
\* how often the caller invokes one vjp closure
MaxCalls == 2
\* how often the caller changes the lists it passed to vjp_maker_num
MaxMutations == 1
\* the largest number of time steps asked of measure_fields
MaxTime == 21

(* ------------------------ numbers and floats --------------------------- *)

Abs(n) == IF n < 0 THEN -n ELSE n

Sign(n) == IF n < 0 THEN -1 ELSE IF n = 0 THEN 0 ELSE 1

RECURSIVE Gcd(_, _)
Gcd(a, b) == IF b = 0 THEN a ELSE Gcd(b, a % b)

\* the float64 with the integral value n
Float(n) == [num |-> n, den |-> 1]

NaN == [num |-> 0, den |-> 0]

\* numpy's a / b on float64 (a, b integral): no exception, b = 0 gives nan or +-inf
TrueDiv(a, b) ==
    IF b = 0 THEN [num |-> Sign(a), den |-> 0]
    ELSE LET g == Gcd(Abs(a), Abs(b))
         IN  [num |-> Sign(b) * (a \div g), den |-> Abs(b) \div g]

\* v * r for an integral v and a float r
FMul(v, r) ==
    IF r.den = 0 THEN (IF v = 0 THEN NaN ELSE [num |-> Sign(v) * r.num, den |-> 0])
    ELSE LET g == Gcd(Abs(v * r.num), r.den)
         IN  [num |-> (v * r.num) \div g, den |-> r.den \div g]

FAdd(r, s) ==
    IF r.den = 0 /\ s.den = 0 THEN (IF r.num = s.num THEN r ELSE NaN)
    ELSE IF r.den = 0 THEN r
    ELSE IF s.den = 0 THEN s
    ELSE LET n == r.num * s.den + s.num * r.den
             d == r.den * s.den
             g == Gcd(Abs(n), d)
         IN  [num |-> n \div g, den |-> d \div g]

RECURSIVE SumSeq(_)
SumSeq(s) == IF Len(s) = 0 THEN 0 ELSE s[1] + SumSeq(Tail(s))

\* np.sum of a sequence of floats
RECURSIVE FSum(_)
FSum(s) == IF Len(s) = 0 THEN Float(0) ELSE FAdd(s[1], FSum(Tail(s)))

(* ------------------------ shapes and indices --------------------------- *)

\* arr.size for a shape: the product of the axis lengths
RECURSIVE Size(_)
Size(shape) == IF Len(shape) = 0 THEN 1 ELSE shape[1] * Size(Tail(shape))

\* the multi-indices of a shape
Indices(shape) ==
    IF Len(shape) = 0 THEN {<<>>}
    ELSE {idx \in [1..Len(shape) -> 0..(Size(shape) - 1)] :
             \A d \in 1..Len(shape) : idx[d] < shape[d]}

\* the row-major (C order) linear index of a multi-index
RECURSIVE RavelFrom(_, _, _, _)
RavelFrom(idx, shape, d, acc) ==
    IF d > Len(shape) THEN acc
    ELSE RavelFrom(idx, shape, d + 1, acc * shape[d] + idx[d])

RavelIndex(idx, shape) == RavelFrom(idx, shape, 1, 0)

UnravelIndex(k, shape) == CHOOSE idx \in Indices(shape) : RavelIndex(idx, shape) = k

(* ----------------------------- arrays ---------------------------------- *)

BufIds == {"arg", "b", "step", "ones", "gradient", "arg_new",
           "fn_out", "v", "args_rav", "vjp_num"}

NoRef == [buf |-> "none", shape |-> <<>>]

EmptyHeap == [id \in BufIds |-> <<>>]

\* the contents of an array reference: its shape and its flat C-ordered data
Val(h, a) == [shape |-> a.shape, data |-> h[a.buf]]

Elem(x, idx) == x.data[RavelIndex(idx, x.shape) + 1]

Scalar(n) == [shape |-> <<>>, data |-> <<n>>]

\* arr.ravel() of a C-contiguous array: a view on the same buffer
Ravel(a) == [buf |-> a.buf, shape |-> <<Size(a.shape)>>]

\* arr.reshape(shape): a view on the same buffer
Reshape(a, shape) == [buf |-> a.buf, shape |-> shape]

\* a copy shares the buffer with nothing: [heap, ref] after copying a to new
NoCopy(h, a, new) == [heap |-> h, ref |-> a]

CopyArray(h, a, new) ==
    [heap |-> [h EXCEPT ![new] = h[a.buf]], ref |-> [buf |-> new, shape |-> a.shape]]

\* arr[i] += x on the buffer behind a
AddAtFirst(h, a, i, x) == [h EXCEPT ![a.buf][1] = @ + x]

AddAt(h, a, i, x) == [h EXCEPT ![a.buf][i + 1] = @ + x]

(* ------------------ the functions under differentiation ---------------- *)

\* a weight that tells the entries of an array apart by their multi-index
Weight(idx) == IF Len(idx) = 0 THEN 1
               ELSE 1 + 3 * idx[1] + (IF Len(idx) > 1 THEN idx[2] ELSE 0)

ScalarFns == {"sum", "sumsq", "weighted", "const"}

BinaryFns == {"mul", "dot"}

Arity(fn) == IF fn \in BinaryFns THEN 2 ELSE 1

\* fn(*xs) for argument values xs
FnApply(fn, xs) ==
    LET x == xs[1]
        n == Len(x.data)
    IN  CASE fn = "sum"      -> Scalar(SumSeq(x.data))
          [] fn = "sumsq"    -> Scalar(SumSeq([k \in 1..n |-> x.data[k] * x.data[k]]))
          [] fn = "weighted" -> Scalar(SumSeq([k \in 1..n |->
                                    Weight(UnravelIndex(k - 1, x.shape)) * x.data[k]]))
          [] fn = "const"    -> Scalar(7)
          [] fn = "mul"      -> [shape |-> x.shape,
                                 data |-> [k \in 1..n |-> x.data[k] * xs[2].data[k]]]
          [] fn = "dot"      -> Scalar(SumSeq([k \in 1..n |-> x.data[k] * xs[2].data[k]]))

(* ------------------------------ inputs --------------------------------- *)

Shapes == {<<n>> : n \in 1..MaxAxis} \cup {<<MaxAxis, c>> : c \in 1..MaxAxis}

Ramp(shape, base, slope) == [k \in 1..Size(shape) |-> base + slope * (k - 1)]

\* the arrays differentiated at: base, base + 1, ... in C order
ArgData(shape) == {Ramp(shape, base, 1) : base \in 1..MaxBase}

\* the second argument of a binary function: 5, 7, 9, ...
SecondData(shape) == Ramp(shape, 5, 2)

\* Python float, Python int and numpy.float64 are the scalar number types
ScalarTypes == {"float", "int", "float64"}

StepVals == {-1} \cup (0..MaxStep)

NonzeroSteps == StepVals \ {0}

Num(type, val) == [type |-> type, val |-> val, ref |-> NoRef]

\* step arrays: some with a zero entry
StepData(shape) == {Ramp(shape, base, slope) : base \in 0..1, slope \in 0..1}

(* ------------------------------ grad_num ------------------------------- *)

gvars == <<g_pc, g_fn, g_arg, g_step_size, g_step, g_f_old, g_i, g_ret, g_exc,
           g_fn_inputs>>

vvars == <<v_pc, v_fn, v_args, v_fn_out, v_steps, v_arg_inds, v_makers, v_k, v_closure,
           v_cot, v_ip, v_ret, v_exc, v_ncalls, v_nmut, v_fn_inputs>>

jvars == <<j_pc, j_A, j_x, j_ret, j_exc>>

mvars == <<m_pc, m_steps, m_amp, m_probes, m_t, m_measured, m_F, m_exc>>

vars == <<heap, passed, gvars, vvars, jvars, mvars>>

\* grad_num has not been called: the caller holds fn, arg and step_size
GradReady(fn, arg, step_size) ==
    /\ g_pc = "start"
    /\ g_fn = fn
    /\ g_arg = arg
    /\ g_step_size = step_size
    /\ g_step = NoRef
    /\ g_f_old = 0
    /\ g_i = 0
    /\ g_ret = NoRef
    /\ g_exc = "none"
    /\ g_fn_inputs = <<>>

GradIdle ==
    /\ g_pc = "idle"
    /\ g_fn = "none"
    /\ g_arg = NoRef
    /\ g_step_size = Num("float", 0)
    /\ g_step = NoRef
    /\ g_f_old = 0
    /\ g_i = 0
    /\ g_ret = NoRef
    /\ g_exc = "none"
    /\ g_fn_inputs = <<>>

\* lines 24-32: N, shape, gradient, f_old and the choice of step
GradCall ==
    /\ g_pc = "start"
    /\ LET N     == Size(g_arg.shape)
           zeros == [heap EXCEPT !["gradient"] = [k \in 1..N |-> Float(0)]]
           f_old == FnApply(g_fn, <<Val(heap, g_arg)>>).data[1]
       IN  /\ g_f_old' = f_old
           /\ g_fn_inputs' = <<Val(heap, g_arg)>>
           /\ IF g_step_size.type = "float"
              THEN \* step_size*np.ones((N))
                   /\ heap' = [zeros EXCEPT !["ones"] = [k \in 1..N |-> g_step_size.val]]
                   /\ g_step' = [buf |-> "ones", shape |-> <<N>>]
                   /\ g_pc' = "loop"
                   /\ g_exc' = "none"
              ELSE IF g_step_size.type = "ndarray"
              THEN \* step_size.ravel(): a view
                   /\ heap' = zeros
                   /\ g_step' = Ravel(g_step_size.ref)
                   /\ g_pc' = "loop"
                   /\ g_exc' = "none"
              ELSE IF g_step_size.type = "float64"
              THEN \* numpy.float64.ravel(): a new array of shape (1,)
                   /\ heap' = [zeros EXCEPT !["ones"] = <<g_step_size.val>>]
                   /\ g_step' = [buf |-> "ones", shape |-> <<1>>]
                   /\ g_pc' = "loop"
                   /\ g_exc' = "none"
              ELSE \* a Python int has no attribute ravel
                   /\ heap' = zeros
                   /\ g_step' = NoRef
                   /\ g_pc' = "raised"
                   /\ g_exc' = "AttributeError"
    /\ g_i' = 0
    /\ UNCHANGED <<passed, g_fn, g_arg, g_step_size, g_ret, vvars, jvars,
                   mvars>>

\* lines 34-38: one iteration of the loop over the entries of arg
GradLoop ==
    /\ g_pc = "loop"
    /\ g_i < Size(g_arg.shape)
    /\ LET cp      == CopyArray(heap, Ravel(g_arg), "arg_new")
           arg_new == cp.ref
       IN  IF g_i >= Size(g_step.shape)
           THEN \* step[i]: index out of bounds
                /\ heap' = cp.heap
                /\ g_pc' = "raised"
                /\ g_exc' = "IndexError"
                /\ UNCHANGED <<g_i, g_fn_inputs>>
           ELSE LET step_i  == heap[g_step.buf][g_i + 1]
                    h1      == AddAt(cp.heap, arg_new, g_i, step_i)
                    x       == Val(h1, Reshape(arg_new, g_arg.shape))
                    f_new_i == FnApply(g_fn, <<x>>).data[1]
                IN  /\ heap' = [h1 EXCEPT !["gradient"][g_i + 1] =
                                              TrueDiv(f_new_i - g_f_old, step_i)]
                    /\ g_fn_inputs' = Append(g_fn_inputs, x)
                    /\ g_i' = g_i + 1
                    /\ UNCHANGED <<g_pc, g_exc>>
    /\ UNCHANGED <<passed, g_fn, g_arg, g_step_size, g_step, g_f_old, g_ret,
                   vvars, jvars, mvars>>

\* line 40: return gradient.reshape(shape)
GradReturn ==
    /\ g_pc = "loop"
    /\ g_i = Size(g_arg.shape)
    /\ g_ret' = Reshape([buf |-> "gradient", shape |-> <<g_i>>], g_arg.shape)
    /\ g_pc' = "returned"
    /\ UNCHANGED <<heap, passed, g_fn, g_arg, g_step_size, g_step, g_f_old,
                   g_i, g_exc, g_fn_inputs, vvars, jvars, mvars>>

(* ---------------------------- vjp_maker_num ---------------------------- *)

NoClosure == [arg_ind |-> 0, shape |-> <<>>, num_p |-> 0, step |-> Num("float", 0)]

\* seq[i] of Python: whether i is a position of a sequence of length n, and which
InRange(n, i) == -n <= i /\ i < n

PyPos(n, i) == IF i < 0 THEN i + n + 1 ELSE i + 1

\* vjp_maker_num has not been called: the caller holds fn, args, arg_inds and steps
VjpReady(fn, args, fn_out, arg_inds, steps) ==
    /\ v_pc = "start"
    /\ v_fn = fn
    /\ v_args = args
    /\ v_fn_out = fn_out
    /\ v_steps = steps
    /\ v_arg_inds = arg_inds
    /\ v_makers = <<>>
    /\ v_k = 0
    /\ v_closure = NoClosure
    /\ v_cot = NoRef
    /\ v_ip = 0
    /\ v_ret = NoRef
    /\ v_exc = "none"
    /\ v_ncalls = 0
    /\ v_nmut = 0
    /\ v_fn_inputs = <<>>

VjpIdle ==
    /\ v_pc = "idle"
    /\ v_fn = "none"
    /\ v_args = <<>>
    /\ v_fn_out = NoRef
    /\ v_steps = <<>>
    /\ v_arg_inds = <<>>
    /\ v_makers = <<>>
    /\ v_k = 0
    /\ v_closure = NoClosure
    /\ v_cot = NoRef
    /\ v_ip = 0
    /\ v_ret = NoRef
    /\ v_exc = "none"
    /\ v_ncalls = 0
    /\ v_nmut = 0
    /\ v_fn_inputs = <<>>

\* lines 82-84: the cells of one call vjp_single_arg(ia)
vjp_single_arg(ia) == [ia |-> ia, arg_ind |-> v_arg_inds[ia], step |-> v_steps[ia]]

\* lines 108-112: vjp_maker_num(fn, arg_inds, steps) builds one generator per ia
VjpMakerNum ==
    /\ v_pc = "start"
    /\ IF Len(v_steps) < Len(v_arg_inds)
       THEN /\ v_pc' = "raised"
            /\ v_exc' = "IndexError"
            /\ UNCHANGED v_makers
       ELSE /\ v_makers' = [ia \in 1..Len(v_arg_inds) |-> vjp_single_arg(ia)]
            /\ v_pc' = "made"
            /\ UNCHANGED v_exc
    /\ UNCHANGED <<heap, passed, gvars, jvars, mvars, v_fn, v_args, v_fn_out,
                   v_steps, v_arg_inds, v_k, v_closure, v_cot, v_ip, v_ret,
                   v_ncalls, v_nmut, v_fn_inputs>>

\* the caller assigns steps[k] = s on the list it passed to the factory
MutateSteps ==
    /\ v_pc \in {"made", "closure", "returned"}
    /\ v_nmut < MaxMutations
    /\ \E k \in 1..Len(v_steps), s \in NonzeroSteps :
          /\ s # v_steps[k].val
          /\ v_steps' = [v_steps EXCEPT ![k] = Num("float", s)]
    /\ UNCHANGED <<heap, passed, gvars, jvars, mvars, v_pc, v_fn, v_args,
                   v_fn_out, v_arg_inds, v_makers, v_k, v_closure, v_cot,
                   v_ip, v_ret, v_exc, v_ncalls, v_fn_inputs>>
    /\ v_nmut' = v_nmut + 1

\* the caller assigns arg_inds[k] = i on the list it passed to the factory
MutateArgInds ==
    /\ v_pc \in {"made", "closure", "returned"}
    /\ v_nmut < MaxMutations
    /\ \E k \in 1..Len(v_arg_inds), i \in 0..(Len(v_args) - 1) :
          /\ i # v_arg_inds[k]
          /\ v_arg_inds' = [v_arg_inds EXCEPT ![k] = i]
    /\ UNCHANGED <<heap, passed, gvars, jvars, mvars, v_pc, v_fn, v_args,
                   v_fn_out, v_steps, v_makers, v_k, v_closure, v_cot, v_ip,
                   v_ret, v_exc, v_ncalls, v_fn_inputs>>
    /\ v_nmut' = v_nmut + 1

\* the step a generator reads when it is invoked: line 89 reads steps[ia] again,
\* and shadows the step that line 84 read when the factory was called
MakerStep(cells) == v_steps[cells.ia]

\* lines 86-89, 104: the AD engine invokes generator k with (fn_out, *args)
VjpMaker ==
    /\ v_pc = "made"
    /\ \E k \in 1..Len(v_makers) :
          LET cells   == v_makers[k]
              arg_ind == cells.arg_ind
              n       == Len(v_args)
          IN  /\ v_k' = k
              /\ IF InRange(n, arg_ind)
                 THEN LET target == v_args[PyPos(n, arg_ind)]
                      IN  /\ v_closure' = [arg_ind |-> arg_ind,
                                           shape   |-> target.shape,
                                           num_p   |-> Size(target.shape),
                                           step    |-> MakerStep(cells)]
                          /\ v_pc' = "closure"
                          /\ UNCHANGED v_exc
                 ELSE \* args[arg_ind]: tuple index out of range
                      /\ v_pc' = "raised"
                      /\ v_exc' = "IndexError"
                      /\ UNCHANGED v_closure
    /\ UNCHANGED <<heap, passed, gvars, jvars, mvars, v_fn, v_args, v_fn_out,
                   v_steps, v_arg_inds, v_makers, v_cot, v_ip, v_ret,
                   v_ncalls, v_nmut, v_fn_inputs>>

\* the cotangents: shaped like fn_out
CotData(shape) == {Ramp(shape, 1, slope) : slope \in 0..1}

\* line 93: the AD engine calls vjp(v)
VjpCall ==
    /\ v_pc \in {"closure", "returned"}
    /\ v_ncalls < MaxCalls
    /\ \E v \in CotData(v_fn_out.shape) :
          /\ heap' = [heap EXCEPT !["v"] = v,
                                  !["vjp_num"] = [k \in 1..v_closure.num_p |-> Float(0)]]
          /\ passed' = [passed EXCEPT !["v"] = v]
    /\ v_cot' = [buf |-> "v", shape |-> v_fn_out.shape]
    /\ v_ip' = 0
    /\ v_pc' = "loop"
    /\ v_ncalls' = v_ncalls + 1
    /\ v_fn_inputs' = <<>>
    /\ UNCHANGED <<gvars, jvars, mvars, v_fn, v_args, v_fn_out, v_steps,
                   v_arg_inds, v_makers, v_k, v_closure, v_ret, v_exc,
                   v_nmut>>

\* arr.flatten(): always a copy
Flatten(h, a, new) == CopyArray(h, Ravel(a), new)

\* line 99: (fn(*args_new) - fn_out)/step, entry by entry
DfnDarg(out, fn_out, step) ==
    [j \in 1..Len(out) |-> TrueDiv(out[j] - fn_out[j], step)]

\* line 100: np.sum(v * dfn_darg)
Contract(v, dfn_darg) == FSum([j \in 1..Len(dfn_darg) |-> FMul(v[j], dfn_darg[j])])

\* lines 94-100: one iteration of the loop over the entries of the argument
VjpLoop ==
    /\ v_pc = "loop"
    /\ v_ip < v_closure.num_p
    /\ LET n        == Len(v_args)
           pos      == PyPos(n, v_closure.arg_ind)
           step     == v_closure.step.val
           fl       == Flatten(heap, v_args[pos], "args_rav")
           args_rav == fl.ref
           h1       == AddAt(fl.heap, args_rav, v_ip, step)
           args_new == [v_args EXCEPT ![pos] = Reshape(args_rav, v_closure.shape)]
           xs       == [a \in 1..n |-> Val(h1, args_new[a])]
           out      == FnApply(v_fn, xs).data
           dfn_darg == DfnDarg(out, h1[v_fn_out.buf], step)
       IN  /\ heap' = [h1 EXCEPT !["vjp_num"][v_ip + 1] =
                                     Contract(h1[v_cot.buf], dfn_darg)]
           /\ v_fn_inputs' = Append(v_fn_inputs, xs)
    /\ v_ip' = v_ip + 1
    /\ UNCHANGED <<passed, gvars, jvars, mvars, v_pc, v_fn, v_args, v_fn_out,
                   v_steps, v_arg_inds, v_makers, v_k, v_closure, v_cot,
                   v_ret, v_exc, v_ncalls, v_nmut>>

\* line 102: return vjp_num, the flat array of num_p entries
VjpReturn ==
    /\ v_pc = "loop"
    /\ v_ip = v_closure.num_p
    /\ v_ret' = [buf |-> "vjp_num", shape |-> <<v_closure.num_p>>]
    /\ v_pc' = "returned"
    /\ UNCHANGED <<heap, passed, gvars, jvars, mvars, v_fn, v_args, v_fn_out,
                   v_steps, v_arg_inds, v_makers, v_k, v_closure, v_cot, v_ip,
                   v_exc, v_ncalls, v_nmut, v_fn_inputs>>

(* -------------------------- jacobian_forward --------------------------- *)

\* the names a body of utils.py can resolve besides its locals: the module's
\* imports and definitions
ModuleGlobals ==
    {"np", "sp", "copy", "plt", "make_vjp", "npa", "make_sparse", "grad_num",
     "circ2eps", "grid_coords", "vjp_maker_num", "_make_vjp", "_make_jvp",
     "unary_to_nary", "primitive", "defvjp_argnum", "vspace", "jacobian_forward",
     "aniplot", "measure_fields", "fft", "fftfreq", "stft", "specshow",
     "get_spectrum", "get_max_power_freq", "get_spectral_power",
     "plot_spectral_power"}

\* the parameters of jacobian_forward(fn, x)
JacobianLocals == {"fn", "x"}

Resolves(name) == name \in JacobianLocals \cup ModuleGlobals

NoVal == [shape |-> <<>>, data |-> <<>>]

\* the one-hot tensors of a shape in row-major order (vspace.standard_basis)
StandardBasis(shape) ==
    [j \in 1..Size(shape) |->
        [shape |-> shape, data |-> [k \in 1..Size(shape) |-> IF k = j THEN 1 ELSE 0]]]

\* the pullback of x |-> A x: the cotangent e to e^T A
Pullback(A, e) ==
    [shape |-> <<A.shape[2]>>,
     data  |-> [i \in 1..A.shape[2] |->
                   SumSeq([j \in 1..A.shape[1] |-> e.data[j] * Elem(A, <<j - 1, i - 1>>)])]]

RECURSIVE Concat(_)
Concat(ss) == IF Len(ss) = 0 THEN <<>> ELSE ss[1] \o Concat(Tail(ss))

\* lines 129-132: the tensor stacked from the pullbacks of the basis
Stacked(A) ==
    LET ans_shape == <<A.shape[1]>>
        basis     == StandardBasis(ans_shape)
        grads     == [j \in 1..Len(basis) |-> Pullback(A, basis[j]).data]
    IN  [shape |-> ans_shape \o <<A.shape[2]>>, data |-> Concat(grads)]

JacIdle ==
    /\ j_pc = "idle"
    /\ j_A = NoVal
    /\ j_x = NoVal
    /\ j_ret = NoVal
    /\ j_exc = "none"

\* lines 118-132: jacobian_forward(fn)(x) runs the body with (fn, x); line 128
\* looks the name fun up
JacobianForward ==
    /\ j_pc = "start"
    /\ IF Resolves("fun")
       THEN /\ j_ret' = Stacked(j_A)
            /\ j_pc' = "returned"
            /\ UNCHANGED j_exc
       ELSE /\ j_pc' = "raised"
            /\ j_exc' = "NameError"
            /\ UNCHANGED j_ret
    /\ UNCHANGED <<heap, passed, gvars, vvars, mvars, j_A, j_x>>

(* --------------------------- measure_fields ---------------------------- *)

\* line 184 reports progress every steps//20 time steps
ProgressParts == 20

\* the number of cells of the simulation domain
Cells == 1..2

\* source(t): the current driven at time step t
Source(amp, t) == [c \in Cells |-> IF c = 1 THEN amp * (t + 1) ELSE amp]

\* the probes: masks over the domain
Probes == {<<1, 0>>, <<0, 1>>, <<1, 1>>}

\* F.initialize_fields(): the field is reset
InitializeFields(F) ==
    [field |-> [c \in Cells |-> 0], calls |-> Append(F.calls, <<"initialize_fields">>)]

\* F.forward(Jz=J): one time step, the current added to the field
Forward(F, J) ==
    [field |-> [c \in Cells |-> F.field[c] + J[c]],
     calls |-> Append(F.calls, <<"forward", J>>)]

NewF == [field |-> [c \in Cells |-> 9], calls |-> <<>>]

MeasureIdle ==
    /\ m_pc = "idle"
    /\ m_steps = 0
    /\ m_amp = 0
    /\ m_probes = [islist |-> TRUE, items |-> <<>>]
    /\ m_t = 0
    /\ m_measured = <<>>
    /\ m_F = NewF
    /\ m_exc = "none"

\* lines 178-182: reset the fields, make probes a list, allocate measured
MeasureCall ==
    /\ m_pc = "start"
    /\ m_F' = InitializeFields(m_F)
    /\ m_probes' = IF m_probes.islist THEN m_probes
                   ELSE [islist |-> TRUE, items |-> <<m_probes.items>>]
    /\ m_measured' = [t \in 1..m_steps |-> [p \in 1..Len(m_probes'.items) |-> 0]]
    /\ m_t' = 0
    /\ m_pc' = "loop"
    /\ UNCHANGED <<heap, passed, gvars, vvars, jvars, m_steps, m_amp, m_exc>>

\* lines 183-189: one time step
MeasureLoop ==
    /\ m_pc = "loop"
    /\ m_t < m_steps
    /\ IF m_steps \div ProgressParts = 0
       THEN \* t_index % (steps//20): integer modulo by zero
            /\ m_pc' = "raised"
            /\ m_exc' = "ZeroDivisionError"
            /\ UNCHANGED <<m_F, m_measured, m_t>>
       ELSE LET F1     == Forward(m_F, Source(m_amp, m_t))
                fields == F1.field
            IN  /\ m_F' = F1
                /\ m_measured' =
                       [m_measured EXCEPT ![m_t + 1] =
                           [p \in 1..Len(m_probes.items) |->
                               SumSeq([c \in Cells |-> fields[c] * m_probes.items[p][c]])]]
                /\ m_t' = m_t + 1
                /\ UNCHANGED <<m_pc, m_exc>>
    /\ UNCHANGED <<heap, passed, gvars, vvars, jvars, m_steps, m_amp,
                   m_probes>>

\* line 190: return measured
MeasureReturn ==
    /\ m_pc = "loop"
    /\ m_t = m_steps
    /\ m_pc' = "returned"
    /\ UNCHANGED <<heap, passed, gvars, vvars, jvars, m_steps, m_amp,
                   m_probes, m_t, m_measured, m_F, m_exc>>

(* --------------------------- specifications ---------------------------- *)

ArgRef(shape) == [buf |-> "arg", shape |-> shape]

\* the caller is about to call grad_num(fn, arg, step_size)
InitGrad ==
    /\ VjpIdle
    /\ JacIdle
    /\ MeasureIdle
    /\ \E fn \in ScalarFns, shape \in Shapes :
       \E a \in ArgData(shape) :
          \/ \E type \in ScalarTypes, val \in StepVals :
                /\ heap = [EmptyHeap EXCEPT !["arg"] = a]
                /\ GradReady(fn, ArgRef(shape), Num(type, val))
          \/ \E st \in StepData(shape) :
                /\ heap = [EmptyHeap EXCEPT !["arg"] = a, !["step"] = st]
                /\ GradReady(fn, ArgRef(shape),
                             [type |-> "ndarray", val |-> 0,
                              ref |-> [buf |-> "step", shape |-> shape]])
    /\ passed = heap

VjpFns == {"mul", "dot", "sumsq"}

\* the lists of 1..maxlen entries of S
Lists(S, maxlen) == UNION {[1..n -> S] : n \in 1..maxlen}

\* the indices that name an argument of fn, counted from 0
ValidInds(fn) == 0..(Arity(fn) - 1)

\* the indices a caller may write, negative and too large ones among them
AnyInds(fn) == (-Arity(fn) - 1)..Arity(fn)

\* the caller is about to call vjp_maker_num(fn, arg_inds, steps), the indices
\* drawn from ValidInds(fn) or, with any, from AnyInds(fn), one per targeted
\* argument, at most maxlen of them
InitVjpOver(any, maxlen) ==
    /\ GradIdle
    /\ JacIdle
    /\ MeasureIdle
    /\ \E fn \in VjpFns, shape \in Shapes :
       \E a \in ArgData(shape), arg_inds \in Lists(IF any THEN AnyInds(fn) ELSE ValidInds(fn), maxlen) :
       \E steps \in [1..Len(arg_inds) -> NonzeroSteps] :
          LET args == IF Arity(fn) = 2
                      THEN <<ArgRef(shape), [buf |-> "b", shape |-> shape]>>
                      ELSE <<ArgRef(shape)>>
              h0   == IF Arity(fn) = 2
                      THEN [EmptyHeap EXCEPT !["arg"] = a, !["b"] = SecondData(shape)]
                      ELSE [EmptyHeap EXCEPT !["arg"] = a]
              out  == FnApply(fn, [i \in 1..Len(args) |-> Val(h0, args[i])])
          IN  /\ heap = [h0 EXCEPT !["fn_out"] = out.data]
              /\ VjpReady(fn, args, [buf |-> "fn_out", shape |-> out.shape], arg_inds,
                          [k \in 1..Len(arg_inds) |-> Num("float", steps[k])])
    /\ passed = heap

Init == InitGrad \/ InitVjpOver(TRUE, 2)

Next ==
    \/ GradCall
    \/ GradLoop
    \/ GradReturn
    \/ VjpMakerNum
    \/ MutateSteps
    \/ MutateArgInds
    \/ VjpMaker
    \/ VjpCall
    \/ VjpLoop
    \/ VjpReturn

\* either entry point, any caller
Spec == Init /\ [][Next]_vars

NextCall ==
    \/ GradCall
    \/ GradLoop
    \/ GradReturn
    \/ VjpMakerNum
    \/ VjpMaker
    \/ VjpCall
    \/ VjpLoop
    \/ VjpReturn

\* either entry point, called as documented: every index names an argument, and
\* the caller leaves the lists it passed alone
InitCall == InitGrad \/ InitVjpOver(FALSE, 2)

SpecCall == InitCall /\ [][NextCall]_vars

\* the caller differentiates one scalar function of one array both ways, with
\* the same nonzero scalar step h
InitEquiv ==
    /\ JacIdle
    /\ MeasureIdle
    /\ \E fn \in ScalarFns, shape \in Shapes :
       \E a \in ArgData(shape), type \in ScalarTypes, h \in NonzeroSteps :
          LET h0 == [EmptyHeap EXCEPT !["arg"] = a]
          IN  /\ heap = [h0 EXCEPT !["fn_out"] =
                                      FnApply(fn, <<Val(h0, ArgRef(shape))>>).data]
              /\ passed = heap
              /\ GradReady(fn, ArgRef(shape), Num(type, h))
              /\ VjpReady(fn, <<ArgRef(shape)>>, [buf |-> "fn_out", shape |-> <<>>],
                          <<0>>, <<Num(type, h)>>)

NextEquiv ==
    \/ GradCall
    \/ GradLoop
    \/ GradReturn
    \/ VjpMakerNum
    \/ VjpMaker
    \/ VjpCall
    \/ VjpLoop
    \/ VjpReturn

SpecEquiv == InitEquiv /\ [][NextEquiv]_vars

\* the caller is about to call jacobian_forward(fn)(x) for fn(x) = A x
InitJac ==
    /\ GradIdle
    /\ VjpIdle
    /\ MeasureIdle
    /\ heap = EmptyHeap
    /\ passed = EmptyHeap
    /\ \E m \in 1..MaxAxis, n \in 1..MaxAxis :
       \E base \in 0..MaxBase, slope \in 0..MaxStep, x \in ArgData(<<n>>) :
          /\ j_A = [shape |-> <<m, n>>, data |-> Ramp(<<m, n>>, base, slope)]
          /\ j_x = [shape |-> <<n>>, data |-> x]
    /\ j_pc = "start"
    /\ j_ret = NoVal
    /\ j_exc = "none"

NextJac == JacobianForward

SpecJac == InitJac /\ [][NextJac]_vars

\* the caller is about to call measure_fields(F, source, steps, probes)
InitMeasure ==
    /\ GradIdle
    /\ VjpIdle
    /\ JacIdle
    /\ heap = EmptyHeap
    /\ passed = EmptyHeap
    /\ m_pc = "start"
    /\ m_steps \in 1..MaxTime
    /\ m_amp \in 1..MaxBase
    /\ m_probes \in [islist : {FALSE}, items : Probes]
                    \cup [islist : {TRUE}, items : Lists(Probes, 2)]
    /\ m_t = 0
    /\ m_measured = <<>>
    /\ m_F = NewF
    /\ m_exc = "none"

NextMeasure ==
    \/ MeasureCall
    \/ MeasureLoop
    \/ MeasureReturn

SpecMeasure == InitMeasure /\ [][NextMeasure]_vars

(* ------------------------- claims: grad_num ---------------------------- *)

\* the value the caller passed in array a
Passed(a) == [shape |-> a.shape, data |-> passed[a.buf]]

\* x with the entry at linear index i incremented by h
Perturbed(x, i, h) == [x EXCEPT !.data[i + 1] = @ + h]

\* the step the caller asked for at linear index i of arg
StepAt(i) == IF g_step_size.type = "ndarray" THEN passed["step"][i + 1]
             ELSE g_step_size.val

GradEntries == 0..(Size(g_arg.shape) - 1)

GradOver == g_pc \in {"returned", "raised"}

\* C1: for a step_size that is a scalar number or an array shaped like arg, with
\* no zero entry, grad_num returns an array shaped like arg whose entry at every
\* row-major linear index i is (fn(arg_i) - fn(arg)) / step[i], arg_i being arg
\* with entry i incremented by step[i].
C1_GradNumIsForwardDifference ==
    (GradOver /\ \A i \in GradEntries : StepAt(i) # 0) =>
        /\ g_pc = "returned"
        /\ g_ret.shape = g_arg.shape
        /\ \A idx \in Indices(g_arg.shape) :
              LET i   == RavelIndex(idx, g_arg.shape)
                  x   == Passed(g_arg)
                  f_i == FnApply(g_fn, <<Perturbed(x, i, StepAt(i))>>).data[1]
                  f   == FnApply(g_fn, <<x>>).data[1]
              IN  Elem(Val(heap, g_ret), idx) = TrueDiv(f_i - f, StepAt(i))

\* C5: when the step of some entry is zero, grad_num fails: it returns no
\* gradient, and in particular none holding a nan or an inf.
C5_ZeroStepFails ==
    (GradOver /\ \E i \in GradEntries : StepAt(i) = 0) =>
        /\ g_pc = "raised"
        /\ g_ret = NoRef

(* ----------------------- claims: vjp_maker_num ------------------------- *)

VjpBuilt == v_pc \in {"closure", "loop", "returned"}

\* the argument generator v_k targets, by the index the factory was given
Target == v_args[PyPos(Len(v_args), v_makers[v_k].arg_ind)]

\* C4: the value vjp(v) returns has the shape of the targeted argument.
C4_VjpHasArgumentShape ==
    v_pc = "returned" => v_ret.shape = Target.shape

\* C6: a generator uses the step and the argument position that steps[k] and
\* arg_inds[k] held when vjp_maker_num was called, whatever the caller assigns
\* to the lists afterwards: the closure's step is that step, and every
\* perturbation adds it to an entry of that argument.
C6_StepFixedAtConstruction ==
    VjpBuilt =>
        /\ v_closure.step = v_makers[v_k].step
        /\ v_closure.arg_ind = v_makers[v_k].arg_ind
        /\ \A c \in 1..Len(v_fn_inputs) :
              v_fn_inputs[c][PyPos(Len(v_args), v_makers[v_k].arg_ind)].data[c] =
                  Passed(Target).data[c] + v_makers[v_k].step.val

\* C9: vjp_maker_num fails when an entry of arg_inds names no argument of fn, so
\* every generator it returns carries an index in 0..len(args)-1.
C9_BadIndexFailsAtConstruction ==
    Len(v_makers) > 0 =>
        \A k \in 1..Len(v_makers) :
            0 <= v_makers[k].arg_ind /\ v_makers[k].arg_ind < Len(v_args)

\* C2: for every generator k and cotangent v, entry p of vjp(v) is
\* sum_j v_j * (fn(args')_j - fn_out_j) / steps[k], where args' is args with
\* entry p of argument arg_inds[k] incremented by steps[k] and nothing else
\* changed.
C2_VjpIsContractedDifference ==
    v_pc = "returned" =>
        LET n      == Len(v_args)
            pos    == v_arg_inds[v_k] + 1
            h      == v_steps[v_k].val
            args   == [a \in 1..n |-> Passed(v_args[a])]
            fn_out == passed["fn_out"]
            v      == passed["v"]
        IN  /\ Len(heap[v_ret.buf]) = Size(args[pos].shape)
            /\ \A p \in 0..(Size(args[pos].shape) - 1) :
                  LET args1 == [args EXCEPT ![pos] = Perturbed(@, p, h)]
                      out   == FnApply(v_fn, args1).data
                  IN  heap[v_ret.buf][p + 1] =
                          TrueDiv(SumSeq([j \in 1..Len(out) |->
                                             v[j] * (out[j] - fn_out[j])]), h)

\* the scenario fn(a, b) = a * b, arg_inds = [0], a = [2, 3], b = [5, 7],
\* v = [1, 1]: the result is [5, 7]
C2_Witness ==
    /\ v_pc = "returned"
    /\ v_fn = "mul"
    /\ v_arg_inds = <<0>>
    /\ passed["arg"] = <<2, 3>>
    /\ passed["b"] = <<5, 7>>
    /\ passed["v"] = <<1, 1>>
    /\ heap[v_ret.buf] = <<Float(5), Float(7)>>

CallerBufs == {"arg", "b", "step", "fn_out", "v"}

\* x and y agree in shape and in every entry but the one at linear index i
SameBut(x, y, i) ==
    /\ x.shape = y.shape
    /\ Len(x.data) = Len(y.data)
    /\ \A k \in 1..Len(x.data) : k # i + 1 => x.data[k] = y.data[k]

\* C7: grad_num and vjp leave every array the caller passed (arg, step_size,
\* args, fn_out, v) as it was, and the input of the call of fn for index i is
\* the original but for entry i of the differentiated argument.
C7_InputsUnchanged ==
    /\ \A id \in CallerBufs : heap[id] = passed[id]
    /\ \A c \in 2..Len(g_fn_inputs) : SameBut(g_fn_inputs[c], Passed(g_arg), c - 2)
    /\ \A c \in 1..Len(v_fn_inputs) :
          \A a \in 1..Len(v_args) :
              IF a = PyPos(Len(v_args), v_closure.arg_ind)
              THEN SameBut(v_fn_inputs[c][a], Passed(v_args[a]), c - 1)
              ELSE v_fn_inputs[c][a] = Passed(v_args[a])

\* a second call of vjp has returned, on a two-dimensional argument of a
\* function of two arguments
C7_Witness ==
    /\ v_pc = "returned"
    /\ v_ncalls = 2
    /\ Len(v_args) = 2
    /\ Len(Target.shape) = 2
    /\ Len(v_fn_inputs) = 4

\* C8: for a scalar function of one array and a nonzero scalar step h, the
\* factory's gradient vjp(1) and grad_num(fn, arg, h) agree at every linear index.
C8_FactoryAgreesWithGradNum ==
    (v_pc = "returned" /\ GradOver) =>
        /\ g_pc = "returned"
        /\ \A i \in GradEntries : heap[v_ret.buf][i + 1] = heap[g_ret.buf][i + 1]

(* ---------------------- claims: jacobian_forward ----------------------- *)

\* C3: jacobian_forward(fn)(x) returns a tensor of shape O ++ I whose slice at
\* output index j is pullback(e_j); for fn(x) = A x it is the matrix A.
C3_JacobianOfLinearMap ==
    j_pc \in {"returned", "raised"} =>
        /\ j_pc = "returned"
        /\ j_ret.shape = j_A.shape
        /\ \A j \in 0..(j_A.shape[1] - 1), i \in 0..(j_A.shape[2] - 1) :
              Elem(j_ret, <<j, i>>) =
                  Elem(Pullback(j_A, StandardBasis(<<j_A.shape[1]>>)[j + 1]), <<i>>)
        /\ j_ret = j_A

(* ----------------------- claims: measure_fields ------------------------ *)

\* the field after the time steps 0..t: the currents added up from zero
RECURSIVE FieldAfter(_, _)
FieldAfter(amp, t) ==
    IF t < 0 THEN [c \in Cells |-> 0]
    ELSE [c \in Cells |-> FieldAfter(amp, t - 1)[c] + Source(amp, t)[c]]

\* C10: for steps >= 1, measure_fields calls F.initialize_fields() once, then
\* F.forward(Jz=source(t)) once for t = 0, ..., steps-1 in this order, and
\* returns the steps x probes array of the sums of field * probe; it does not
\* fail, however small steps is.
C10_MeasureFieldsCompletes ==
    m_pc \in {"returned", "raised"} =>
        /\ m_pc = "returned"
        /\ m_F.calls = <<(<<"initialize_fields">>)>>
                         \o [t \in 1..m_steps |-> <<"forward", Source(m_amp, t - 1)>>]
        /\ Len(m_measured) = m_steps
        /\ \A t \in 1..m_steps :
              /\ Len(m_measured[t]) = Len(m_probes.items)
              /\ \A p \in 1..Len(m_probes.items) :
                    m_measured[t][p] =
                        SumSeq([c \in Cells |->
                                   FieldAfter(m_amp, t - 1)[c] * m_probes.items[p][c]])

====
